---- MODULE Spec2Model ----
(***************************************************************************)
(* A model of src/smhi.py, the SMHI multi-service terminal client.         *)
(*                                                                         *)
(* The program is sequential.  Its state is the position of the one        *)
(* thread of control (pc), the in-memory favorites of the observation      *)
(* service, the favorites file, and the locals of the handler that is      *)
(* running.  User input and network responses are the inputs; they are     *)
(* drawn from the small sets defined below.                                *)
(*                                                                         *)
(* JSON objects are TLA+ functions whose DOMAIN is the set of fields that  *)
(* are present, so that a missing field is a field outside the DOMAIN.     *)
(* Strings that the code compares with < (station names, period keys) are  *)
(* compared by their rank in CodepointOrder.                               *)
(***************************************************************************)
EXTENDS Integers, Sequences, FiniteSets, TLC

VARIABLES
    pc,         \* position of the thread of control
    inp,        \* the line input() returned last
    exc,        \* the exception that ended the process, "" while there is none
    favorites,  \* met_obs.favorites: station id (str) -> display name
    file,       \* weather_favorites.json
    stations,   \* MeteorologicalObservations.run: the station list
    station_id, \* MeteorologicalObservations.run: the id display_stations returned
    toggled,    \* display_stations: the favorite toggles made at this list
    reqs,       \* get_latest_weather: the requests of the call, in order
    weather,    \* get_latest_weather: what the call returned
    geo,        \* get_automatic_location: the response of the lookup
    loc,        \* get_location: the (lat, lon) it returned
    lat,        \* get_manual_location: the latitude accepted
    retries,    \* get_manual_location: rejected entries so far
    shown,      \* show_met_forecasts: the temperatures printed
    forecast_resp, \* show_met_forecasts: the response to the forecast request
    warned,     \* what the last load or save of the favorites printed
    fin,        \* listing/formatting call under study: its input
    fout        \* ... and its result

appVars == <<inp, exc, favorites, file, stations, station_id, toggled, reqs,
             weather, geo, loc, lat, retries, shown, forecast_resp, warned>>
fnVars == <<fin, fout>>
vars == <<pc, inp, exc, favorites, file, stations, station_id, toggled, reqs,
          weather, geo, loc, lat, retries, shown, forecast_resp,
          warned, fin, fout>>

----------------------------------------------------------------------------
(* Bounds of the model                                                     *)

MaxStations == 3
MaxPeriods == 3
MaxTimesteps == 5
MaxRetries == 2

----------------------------------------------------------------------------
(* Python helpers                                                          *)

\* The strings the code orders, in Python's str order (code point order).
CodepointOrder ==
    <<"Abisko", "Lund", "Visby",
      "corrected-archive", "latest-day", "latest-hour", "latest-months">>

Rank(s) == CHOOSE i \in 1..Len(CodepointOrder) : CodepointOrder[i] = s

\* a <= b on Python strings
StrLeq(a, b) == Rank(a) <= Rank(b)

\* dict.get(k, default)
Get(d, k, default) == IF k \in DOMAIN d THEN d[k] ELSE default

\* sequences over S of length at most n
SeqUpTo(S, n) == UNION {[1..k -> S] : k \in 0..n}

\* requests.get + raise_for_status + response.json, as fetch_data sees them:
\* the response either raises (transport failure, non-2xx status, body that
\* is not JSON) or decodes to a JSON value.
FetchFails == [ok |-> FALSE]
FetchJson(body) == [ok |-> TRUE, body |-> body]

\* None
NoValue == [none |-> TRUE]
IsNone(v) == "none" \in DOMAIN v

\* {}: the dict without keys
NoFavorites == [id \in {} |-> ""]

\* JSON values that are not objects (a list, null, a number): .get raises.
NotADict == [json |-> "not-an-object"]
IsDict(body) == "json" \notin DOMAIN body

\* What a call did: it returned a value or raised, and what it printed.
Outcome(kind, v, console) == [kind |-> kind, value |-> v, console |-> console]
Returns(v, console) == Outcome("return", v, console)
Raises(e, console) == Outcome("raise", e, console)

\* sorted(seq, key=..., reverse=...): Python's sort is stable, and with
\* reverse=True elements with equal keys keep their original order too.
\* keys[i] is the rank of seq[i]'s key.  Insert places index i behind every
\* index of p that does not have to come after it.
Insert(p, i, keys, reverse) ==
    LET Before(j) == IF reverse THEN keys[j] >= keys[i] ELSE keys[j] <= keys[i]
        n == Cardinality({k \in 1..Len(p) : Before(p[k])})
    IN  SubSeq(p, 1, n) \o <<i>> \o SubSeq(p, n + 1, Len(p))

RECURSIVE SortedIdx(_, _, _)
SortedIdx(keys, reverse, n) ==
    IF n = 0 THEN <<>>
    ELSE Insert(SortedIdx(keys, reverse, n - 1), n, keys, reverse)

sorted(seq, keys, reverse) ==
    LET p == SortedIdx(keys, reverse, Len(seq))
    IN  [k \in 1..Len(seq) |-> seq[p[k]]]

\* the subsequence of seq at the indices where Keep holds, in order
RECURSIVE FilterIdx(_, _, _)
FilterIdx(seq, keep, n) ==
    IF n = 0 THEN <<>>
    ELSE IF n \in keep THEN Append(FilterIdx(seq, keep, n - 1), seq[n])
    ELSE FilterIdx(seq, keep, n - 1)

----------------------------------------------------------------------------
(* fetch_data                                                              *)

\* fetch_data(url): returns the decoded JSON, or prints the error and
\* re-raises the RequestException.
fetch_data(resp) ==
    IF resp.ok THEN Returns(resp.body, <<>>)
    ELSE Raises("RequestException", <<"Error fetching data">>)

----------------------------------------------------------------------------
(* MeteorologicalObservations: the listing operations                      *)

\* The dict get_stations builds for an active station.
StationInfo(station) ==
    [key |-> station.key,
     name |-> station.name,
     active |-> Get(station, "active", FALSE),
     height |-> Get(station, "height", 0),
     latitude |-> Get(station, "latitude", 0),
     longitude |-> Get(station, "longitude", 0)]

\* get_stations with the sort left out: the active stations in payload order.
get_stations_unsorted(resp) ==
    IF resp.ok /\ IsDict(resp.body)
       /\ \A i \in 1..Len(Get(resp.body, "station", <<>>)) :
            {"key", "name"} \subseteq DOMAIN resp.body.station[i]
    THEN LET list == Get(resp.body, "station", <<>>)
             active == {i \in 1..Len(list) : Get(list[i], "active", FALSE)}
         IN  Returns(FilterIdx([i \in 1..Len(list) |->
                                  IF i \in active THEN StationInfo(list[i])
                                  ELSE list[i]], active, Len(list)), <<>>)
    ELSE Returns(<<>>, <<"Error getting stations">>)

\* get_stations(parameter), given the response to its one request.
\* Everything in the body of the try raises into the except clause, which
\* prints and returns [].
get_stations(resp) ==
    LET fetched == fetch_data(resp)
        failed(console) == Returns(<<>>, console \o <<"Error getting stations">>)
    IN  IF fetched.kind = "raise" THEN failed(fetched.console)
        ELSE IF ~IsDict(fetched.value) THEN failed(<<>>)      \* data.get
        ELSE
          LET list == Get(fetched.value, "station", <<>>)
              active == {i \in 1..Len(list) : Get(list[i], "active", FALSE)}
          IN  IF \E i \in active : ~({"key", "name"} \subseteq DOMAIN list[i])
              THEN failed(<<>>)                               \* KeyError
              ELSE
                LET found == FilterIdx([i \in 1..Len(list) |->
                                          IF i \in active
                                          THEN StationInfo(list[i])
                                          ELSE list[i]],
                                       active, Len(list))
                    keys == [i \in 1..Len(found) |-> Rank(found[i].name)]
                IN  Returns(sorted(found, keys, FALSE), <<>>)

\* get_available_periods sorting ascending (reverse=True forgotten).
get_available_periods_ascending(resp) ==
    IF resp.ok /\ IsDict(resp.body)
       /\ \A i \in 1..Len(Get(resp.body, "period", <<>>)) :
            "key" \in DOMAIN resp.body.period[i]
    THEN LET periods == Get(resp.body, "period", <<>>)
             keys == [i \in 1..Len(periods) |-> Rank(periods[i].key)]
         IN  Returns(sorted(periods, keys, FALSE), <<>>)
    ELSE Returns(<<>>, <<"Error getting periods">>)

\* get_available_periods(parameter, station_id), given the response.
get_available_periods(resp) ==
    LET fetched == fetch_data(resp)
        failed(console) == Returns(<<>>, console \o <<"Error getting periods">>)
    IN  IF fetched.kind = "raise" THEN failed(fetched.console)
        ELSE IF ~IsDict(fetched.value) THEN failed(<<>>)      \* data.get
        ELSE
          LET periods == Get(fetched.value, "period", <<>>)
              console == IF Len(periods) = 0
                         THEN <<"No data periods available">> ELSE <<>>
          IN  IF \E i \in 1..Len(periods) : "key" \notin DOMAIN periods[i]
              THEN failed(console)                            \* KeyError
              ELSE
                LET keys == [i \in 1..Len(periods) |-> Rank(periods[i].key)]
                IN  Returns(sorted(periods, keys, TRUE), console)

----------------------------------------------------------------------------
(* OceanographicData                                                       *)

\* get_stations(): no try block; whatever fetch_data or data.get raises
\* reaches the caller.
ocean_get_stations(resp) ==
    LET fetched == fetch_data(resp)
    IN  IF fetched.kind = "raise" THEN fetched
        ELSE IF ~IsDict(fetched.value) THEN Raises("AttributeError", <<>>)
        ELSE Returns(Get(fetched.value, "station", <<>>), <<>>)

----------------------------------------------------------------------------
(* Inputs of the listing operations                                        *)

\* Entries of a station catalog: complete ones, and ones that lack a field.
StationEntries ==
    {[key |-> 1, name |-> "Lund", active |-> TRUE,
      height |-> 73, latitude |-> 55, longitude |-> 13],
     [key |-> 2, name |-> "Abisko", active |-> TRUE],
     [key |-> 3, name |-> "Lund", active |-> TRUE],
     [key |-> 4, name |-> "Visby", active |-> FALSE, height |-> 42],
     [key |-> 5, name |-> "Abisko"],
     [key |-> 6, active |-> TRUE],
     [name |-> "Visby", active |-> TRUE],
     [key |-> 7, active |-> FALSE]}

PeriodEntries ==
    {[key |-> "latest-hour", from |-> 1],
     [key |-> "latest-day", from |-> 1],
     [key |-> "latest-day", from |-> 2],
     [key |-> "latest-months", from |-> 1],
     [key |-> "corrected-archive", from |-> 1],
     [from |-> 3]}

StationResponses ==
    {FetchFails, FetchJson(NotADict), FetchJson([updated |-> 1])}
    \cup {FetchJson([updated |-> 1, station |-> l]) :
            l \in SeqUpTo(StationEntries, MaxStations)}

PeriodResponses ==
    {FetchFails, FetchJson(NotADict), FetchJson([updated |-> 1])}
    \cup {FetchJson([updated |-> 1, period |-> l]) :
            l \in SeqUpTo(PeriodEntries, MaxPeriods)}

----------------------------------------------------------------------------
(* SpecListing: one listing call on one response                           *)

\* The application is not running while a single call is studied.
AppIdle ==
    /\ inp = "" /\ exc = ""
    /\ favorites = NoFavorites /\ file = [state |-> "absent"]
    /\ stations = <<>> /\ station_id = "" /\ toggled = <<>>
    /\ reqs = <<>> /\ weather = NoValue
    /\ geo = NoValue /\ loc = NoValue /\ lat = NoValue
    /\ retries = 0 /\ shown = <<>> /\ forecast_resp = NoValue
    /\ warned = <<>>

InitListing ==
    /\ AppIdle
    /\ pc = "listing"
    /\ fin \in [op : {"get_stations", "ocean_get_stations"}, resp : StationResponses]
           \cup [op : {"get_available_periods"}, resp : PeriodResponses]
    /\ fout = Returns(<<>>, <<>>)

CallGetStations ==
    /\ pc = "listing" /\ fin.op = "get_stations"
    /\ fout' = get_stations(fin.resp)
    /\ pc' = "listed"
    /\ UNCHANGED <<fin, appVars>>

CallGetAvailablePeriods ==
    /\ pc = "listing" /\ fin.op = "get_available_periods"
    /\ fout' = get_available_periods(fin.resp)
    /\ pc' = "listed"
    /\ UNCHANGED <<fin, appVars>>

CallOceanGetStations ==
    /\ pc = "listing" /\ fin.op = "ocean_get_stations"
    /\ fout' = ocean_get_stations(fin.resp)
    /\ pc' = "listed"
    /\ UNCHANGED <<fin, appVars>>

NextListing ==
    \/ CallGetStations
    \/ CallGetAvailablePeriods
    \/ CallOceanGetStations

SpecListing == InitListing /\ [][NextListing]_vars

----------------------------------------------------------------------------
(* Properties of the listing operations (SpecListing)                      *)

Count(seq, P(_)) == Cardinality({i \in 1..Len(seq) : P(seq[i])})

IsActive(station) == Get(station, "active", FALSE)

\* The catalog of a decoded response whose active stations all carry the
\* fields of a station (key and name).
Catalog(resp) == Get(resp.body, "station", <<>>)
CatalogDecodes(resp) ==
    /\ resp.ok /\ IsDict(resp.body)
    /\ \A i \in 1..Len(Catalog(resp)) :
         IsActive(Catalog(resp)[i]) =>
           {"key", "name"} \subseteq DOMAIN Catalog(resp)[i]

GetStationsReturned == pc = "listed" /\ fin.op = "get_stations"

\* C5: for every station catalog that decodes, the list get_stations
\* returns holds exactly the catalog's active stations (every element is
\* active, every active station of the catalog occurs as often as in the
\* catalog, and nothing else occurs), sorted ascending by name.
C5_ActiveOnlySortedByName ==
    (GetStationsReturned /\ CatalogDecodes(fin.resp)) =>
      LET out == fout.value
          cat == Catalog(fin.resp)
          Same(a, b) == a.key = b.key /\ a.name = b.name
      IN  /\ fout.kind = "return"
          /\ \A k \in 1..Len(out) : out[k].active = TRUE
          /\ Len(out) = Count(cat, IsActive)
          /\ \A i \in 1..Len(cat) :
               IsActive(cat[i]) =>
                 LET SameAsI(x) == IsActive(x) /\ Same(x, cat[i])
                 IN  Count(out, SameAsI) = Count(cat, SameAsI)
          /\ \A j, k \in 1..Len(out) :
               j < k => StrLeq(out[j].name, out[k].name)

\* A catalog with an inactive station and with two active stations out of
\* name order has been listed.
C5_Witness ==
    /\ GetStationsReturned /\ CatalogDecodes(fin.resp)
    /\ LET cat == Catalog(fin.resp)
       IN  /\ \E i \in 1..Len(cat) : ~IsActive(cat[i])
           /\ \E i, j \in 1..Len(cat) :
                /\ i < j /\ IsActive(cat[i]) /\ IsActive(cat[j])
                /\ ~StrLeq(cat[i].name, cat[j].name)
    /\ Len(fout.value) >= 2

\* C6: no listing operation raises; on a failed request or a payload that
\* does not decode it returns the empty list and has printed a warning.
ListingFailed ==
    \/ ~fin.resp.ok
    \/ ~IsDict(fin.resp.body)
C6_ListingNeverRaises ==
    pc = "listed" =>
      /\ fout.kind = "return"
      /\ ListingFailed => (fout.value = <<>> /\ Len(fout.console) > 0)

\* The periods of a decoded response, each of which carries its key.
Periods(resp) == Get(resp.body, "period", <<>>)
PeriodsDecode(resp) ==
    /\ resp.ok /\ IsDict(resp.body)
    /\ \A i \in 1..Len(Periods(resp)) : "key" \in DOMAIN Periods(resp)[i]

GetPeriodsReturned == pc = "listed" /\ fin.op = "get_available_periods"

\* C7: get_available_periods returns all periods of the payload (each as
\* often as the payload has it), sorted descending by period key, and the
\* empty list when the payload has no periods.
C7_PeriodsSortedDescending ==
    (GetPeriodsReturned /\ PeriodsDecode(fin.resp)) =>
      LET out == fout.value
          per == Periods(fin.resp)
      IN  /\ fout.kind = "return"
          /\ Len(out) = Len(per)
          /\ \A i \in 1..Len(per) :
               LET IsIt(x) == x = per[i]
               IN  Count(out, IsIt) = Count(per, IsIt)
          /\ \A j, k \in 1..Len(out) :
               j < k => StrLeq(out[k].key, out[j].key)
          /\ Len(per) = 0 => out = <<>>

\* A payload whose periods arrive in ascending key order has been listed.
C7_Witness ==
    /\ GetPeriodsReturned /\ PeriodsDecode(fin.resp)
    /\ LET per == Periods(fin.resp)
       IN  /\ Len(per) >= 2
           /\ \E i, j \in 1..Len(per) :
                i < j /\ ~StrLeq(per[j].key, per[i].key)
    /\ Len(fout.value) >= 2

----------------------------------------------------------------------------
(* MeteorologicalAnalysis.format_analysis_data                             *)

\* self.parameters of MeteorologicalAnalysis: menu key -> name and unit.
AnalysisParameters ==
    [c \in {"1", "2", "3", "4", "5", "6", "7"} |->
       CASE c = "1" -> [name |-> "t", unit |-> "degC"]
         [] c = "2" -> [name |-> "gust", unit |-> "m/s"]
         [] c = "3" -> [name |-> "r", unit |-> "%"]
         [] c = "4" -> [name |-> "msl", unit |-> "hPa"]
         [] c = "5" -> [name |-> "vis", unit |-> "km"]
         [] c = "6" -> [name |-> "ws", unit |-> "m/s"]
         [] c = "7" -> [name |-> "wd", unit |-> "degree"]]

\* datetime.fromisoformat(validTime.replace('Z', '+00:00')) on the valid
\* times of the model: an aware datetime.
FromIsoformat(validTime) ==
    CASE validTime = "2024-05-01T00:00:00Z" -> [day |-> 1, hour |-> 0, utcoffset |-> 0]
      [] validTime = "2024-05-01T01:00:00Z" -> [day |-> 1, hour |-> 1, utcoffset |-> 0]
      [] validTime = "2024-05-01T02:00:00Z" -> [day |-> 1, hour |-> 2, utcoffset |-> 0]
      [] validTime = "2024-05-01T03:00:00Z" -> [day |-> 1, hour |-> 3, utcoffset |-> 0]

\* next((p for p in parameters if p["name"] == param_name), None):
\* the index of the first entry with that name, 0 for None.
FirstNamed(parameters, param_name) ==
    LET hits == {i \in 1..Len(parameters) : parameters[i].name = param_name}
    IN  IF hits = {} THEN 0
        ELSE CHOOSE i \in hits : \A j \in hits : i <= j

\* One pass of the loop body over time_series; "skip" when the parameter is
\* not in the timestep.
FormatTimestep(time_series, param_info) ==
    IF "validTime" \notin DOMAIN time_series THEN Raises("KeyError", <<>>)
    ELSE
      LET timestamp == FromIsoformat(time_series.validTime)
          n == FirstNamed(time_series.parameters, param_info.name)
      IN  IF n = 0 THEN Outcome("skip", <<>>, <<>>)
          ELSE IF Len(time_series.parameters[n].values) = 0
               THEN Raises("IndexError", <<>>)
          ELSE Returns([timestamp |-> timestamp,
                        value |-> time_series.parameters[n].values[1],
                        unit |-> param_info.unit], <<>>)

\* The loop over the first n timesteps: the list built so far, or the
\* exception that ended the loop.
RECURSIVE FormatLoop(_, _, _)
FormatLoop(timeSeries, param_info, n) ==
    IF n = 0 THEN Returns(<<>>, <<>>)
    ELSE
      LET sofar == FormatLoop(timeSeries, param_info, n - 1)
          step == FormatTimestep(timeSeries[n], param_info)
      IN  IF sofar.kind = "raise" THEN sofar
          ELSE IF step.kind = "raise" THEN step
          ELSE IF step.kind = "skip" THEN sofar
          ELSE Returns(Append(sofar.value, step.value), <<>>)

\* format_analysis_data with an unguarded lookup, as show_met_forecasts has:
\* a timestep without the parameter ends the call with StopIteration.
format_analysis_data_unguarded(data, parameter) ==
    IF parameter \notin DOMAIN AnalysisParameters THEN Raises("KeyError", <<>>)
    ELSE IF ~IsDict(data) THEN Raises("AttributeError", <<>>)
    ELSE
      LET timeSeries == Get(data, "timeSeries", <<>>)
          param_info == AnalysisParameters[parameter]
      IN  IF \E i \in 1..Len(timeSeries) :
               FormatTimestep(timeSeries[i], param_info).kind = "skip"
          THEN Raises("StopIteration", <<>>)
          ELSE FormatLoop(timeSeries, param_info, Len(timeSeries))

\* format_analysis_data(data, parameter)
format_analysis_data(data, parameter) ==
    IF parameter \notin DOMAIN AnalysisParameters THEN Raises("KeyError", <<>>)
    ELSE IF ~IsDict(data) THEN Raises("AttributeError", <<>>)
    ELSE
      LET timeSeries == Get(data, "timeSeries", <<>>)
      IN  FormatLoop(timeSeries, AnalysisParameters[parameter], Len(timeSeries))

\* Timesteps of an analysis payload: with "t" first, with "t" behind another
\* parameter, without "t", with a "t" that has no values, without validTime.
Timesteps ==
    {[validTime |-> "2024-05-01T00:00:00Z",
      parameters |-> <<[name |-> "t", values |-> <<11, 12>>],
                       [name |-> "t", values |-> <<6>>]>>],
     [validTime |-> "2024-05-01T01:00:00Z",
      parameters |-> <<[name |-> "r", values |-> <<80>>],
                       [name |-> "t", values |-> <<-3>>]>>],
     [validTime |-> "2024-05-01T02:00:00Z",
      parameters |-> <<[name |-> "r", values |-> <<75>>]>>],
     [validTime |-> "2024-05-01T03:00:00Z",
      parameters |-> <<[name |-> "t", values |-> <<>>],
                       [name |-> "r", values |-> <<70>>]>>],
     [parameters |-> <<[name |-> "t", values |-> <<1>>]>>]}

AnalysisPayloads ==
    {NotADict, [approvedTime |-> 1]}
    \cup {[approvedTime |-> 1, timeSeries |-> l] :
            l \in SeqUpTo(Timesteps, MaxTimesteps)}

AnalysisChoices == {"1", "3", "6", "8"}

----------------------------------------------------------------------------
(* SpecAnalysis: one call of format_analysis_data                          *)

InitAnalysis ==
    /\ AppIdle
    /\ pc = "formatting"
    /\ fin \in [data : AnalysisPayloads, choice : AnalysisChoices]
    /\ fout = Returns(<<>>, <<>>)

CallFormatAnalysisData ==
    /\ pc = "formatting"
    /\ fout' = format_analysis_data(fin.data, fin.choice)
    /\ pc' = "formatted"
    /\ UNCHANGED <<fin, appVars>>

NextAnalysis == CallFormatAnalysisData

SpecAnalysis == InitAnalysis /\ [][NextAnalysis]_vars

\* The timesteps of the call's payload and those that have the parameter.
CallTimeSeries == Get(fin.data, "timeSeries", <<>>)
HasParameter(time_series, name) ==
    \E i \in 1..Len(time_series.parameters) : time_series.parameters[i].name = name
\* A timestep the loop body gets through: it has a valid time, and the
\* entry of the parameter, if there is one, has a value.
Complete(time_series, name) ==
    /\ "validTime" \in DOMAIN time_series
    /\ \A i \in 1..Len(time_series.parameters) :
         (/\ time_series.parameters[i].name = name
          /\ \A j \in 1..(i - 1) : time_series.parameters[j].name # name)
         => Len(time_series.parameters[i].values) > 0

FormatAnalysisCalled ==
    /\ pc = "formatted"
    /\ fin.choice \in DOMAIN AnalysisParameters
    /\ IsDict(fin.data)
    /\ \A i \in 1..Len(CallTimeSeries) :
         Complete(CallTimeSeries[i], AnalysisParameters[fin.choice].name)

\* C10: format_analysis_data returns one entry per timestep that has an
\* entry named as the chosen parameter, in the order of the timesteps, each
\* with the first value of the first such entry and the unit of the chosen
\* parameter; timesteps without the parameter are skipped and raise nothing.
C10_OneEntryPerTimestepWithParameter ==
    FormatAnalysisCalled =>
      LET ts == CallTimeSeries
          name == AnalysisParameters[fin.choice].name
          kept == {i \in 1..Len(ts) : HasParameter(ts[i], name)}
          pos(i) == Cardinality({j \in kept : j <= i})
          out == fout.value
      IN  /\ fout.kind = "return"
          /\ Len(out) = Cardinality(kept)
          /\ \A i \in kept :
               /\ \E k \in 1..Len(ts[i].parameters) :
                    /\ ts[i].parameters[k].name = name
                    /\ \A j \in 1..(k - 1) : ts[i].parameters[j].name # name
                    /\ out[pos(i)].value = ts[i].parameters[k].values[1]
               /\ out[pos(i)].unit = AnalysisParameters[fin.choice].unit
               /\ out[pos(i)].timestamp = FromIsoformat(ts[i].validTime)

\* Parameter "t" was asked of five timesteps of which exactly one lacks "t",
\* and the result has four entries.
C10_Witness ==
    /\ FormatAnalysisCalled
    /\ fin.choice = "1"
    /\ Len(CallTimeSeries) = 5
    /\ Cardinality({i \in 1..5 : ~HasParameter(CallTimeSeries[i], "t")}) = 1
    /\ fout.kind = "return" /\ Len(fout.value) = 4

----------------------------------------------------------------------------
(* Text: the str methods and float() on the lines and JSON scalars of the  *)
(* model                                                                   *)

\* str.lower()
Lower(s) ==
    CASE s = "Q" -> "q"
      [] s = "Y" -> "y"
      [] s = "F" -> "f"
      [] s = "N" -> "n"
      [] OTHER -> s

\* str.strip()
Strip(s) ==
    CASE s = " 1" -> "1"
      [] s = "f " -> "f"
      [] s = " q " -> "q"
      [] OTHER -> s

\* str(station["key"]) for the integer keys of the model
Str(k) == <<"1", "2", "3", "4", "5", "6", "7">>[k]

\* float(x): a number (in units of 10^-5), nan, or the exception raised.
\* "null" is JSON null (None), on which float raises TypeError.
Float(x) ==
    CASE x = "0"        -> [kind |-> "num", val |-> 0]
      [] x = "57.69466" -> [kind |-> "num", val |-> 5769466]
      [] x = "11.97973" -> [kind |-> "num", val |-> 1197973]
      [] x = "59.3293"  -> [kind |-> "num", val |-> 5932930]
      [] x = "18.0686"  -> [kind |-> "num", val |-> 1806860]
      [] x = "90"       -> [kind |-> "num", val |-> 9000000]
      [] x = "-90"      -> [kind |-> "num", val |-> -9000000]
      [] x = "91"       -> [kind |-> "num", val |-> 9100000]
      [] x = "180"      -> [kind |-> "num", val |-> 18000000]
      [] x = "-180"     -> [kind |-> "num", val |-> -18000000]
      [] x = "-181"     -> [kind |-> "num", val |-> -18100000]
      [] x = "21.456"   -> [kind |-> "num", val |-> 2145600]
      [] x = "1013.7"   -> [kind |-> "num", val |-> 101370000]
      [] x = "-3.26"    -> [kind |-> "num", val |-> -326000]
      [] x = "80"       -> [kind |-> "num", val |-> 8000000]
      [] x = "nan"      -> [kind |-> "nan", val |-> 0]
      [] x = "null"     -> [kind |-> "TypeError", val |-> 0]
      [] OTHER          -> [kind |-> "ValueError", val |-> 0]

IsFloat(f) == f.kind \in {"num", "nan"}

\* lo <= f <= hi on floats: every comparison with nan is False
Between(lo, f, hi) == f.kind = "num" /\ lo <= f.val /\ f.val <= hi

----------------------------------------------------------------------------
(* Favorites store                                                         *)

\* load_favorites(): the mapping read, and the warning printed if any.
load_favorites(f) ==
    CASE f.state = "absent"  -> Returns(NoFavorites, <<>>)
      [] f.state = "corrupt" -> Returns(NoFavorites, <<"Could not load favorites">>)
      [] f.state = "json"    -> Returns(f.data, <<>>)

\* save_favorites without its try: the OSError reaches the caller.
save_favorites_unguarded(favs, f, io) ==
    CASE io = "ok"          -> [kind |-> "return",
                                file |-> [state |-> "json", data |-> favs],
                                console |-> <<>>]
      [] io = "open_fails"  -> [kind |-> "raise", file |-> f, console |-> <<>>]
      [] io = "write_fails" -> [kind |-> "raise",
                                file |-> [state |-> "corrupt"],
                                console |-> <<>>]

\* save_favorites(): open(..., 'w') and json.dump.  io is what the file
\* system does: "ok"; "open_fails" (the file stays as it is); "write_fails"
\* (the file was truncated by open and is left incomplete).  The call
\* returns normally in each case.
save_favorites(favs, f, io) ==
    CASE io = "ok"          -> [kind |-> "return",
                                file |-> [state |-> "json", data |-> favs],
                                console |-> <<>>]
      [] io = "open_fails"  -> [kind |-> "return",
                                file |-> f,
                                console |-> <<"Could not save favorites">>]
      [] io = "write_fails" -> [kind |-> "return",
                                file |-> [state |-> "corrupt"],
                                console |-> <<"Could not save favorites">>]

IoOutcomes == {"ok", "open_fails", "write_fails"}

----------------------------------------------------------------------------
(* SMHIMultiService.run and the handlers without a service class           *)

\* self.services
Services == {"1", "2", "3", "4"}

MenuInputs == {"1", "2", "3", "4", "9", "q", "Q"}
YesNoInputs == {"y", "Y", "n", ""}

\* The locals of a handler, as they are before and after the handler runs.
NoLocals ==
    /\ stations' = <<>> /\ station_id' = "" /\ toggled' = <<>>
    /\ reqs' = <<>> /\ weather' = NoValue
    /\ geo' = NoValue /\ loc' = NoValue /\ lat' = NoValue
    /\ retries' = 0 /\ shown' = <<>> /\ forecast_resp' = NoValue

\* An exception leaves run(): the process ends with a traceback.
Crash(e) ==
    /\ pc' = "crashed"
    /\ exc' = e

\* display_main_menu(): None for 'q', else the line as entered.
display_main_menu(line) == IF Lower(line) = "q" THEN NoValue ELSE [choice |-> line]

\* The position the dispatch of run() hands control to.
Dispatch(choice) ==
    CASE choice = "1" -> "obs_parameters"       \* show_met_observations
      [] choice = "2" -> "fc_latitude"          \* show_met_forecasts
      [] choice = "3" -> "loc_choice"           \* show_met_analysis
      [] choice = "4" -> "ocean_fetch"          \* show_ocean_data
      [] OTHER        -> "return_prompt"        \* Invalid choice

\* One pass of the while loop of run() up to the handler call.
MainMenu ==
    /\ pc = "main_menu"
    /\ \E line \in MenuInputs :
         /\ inp' = line
         /\ LET choice == display_main_menu(line)
            IN  pc' = IF IsNone(choice) THEN "exited" ELSE Dispatch(choice.choice)
    /\ NoLocals
    /\ UNCHANGED <<exc, favorites, file, warned, fnVars>>

\* a prompt that ends the program on 'n' only
return_to_menu_unless_n(answer) == Lower(answer) # "n"

\* the loop continues iff the answer is 'y'
return_to_menu(answer) == Lower(answer) = "y"

\* "Return to main menu? (y/n)"
ReturnPrompt ==
    /\ pc = "return_prompt"
    /\ \E answer \in YesNoInputs :
         /\ inp' = answer
         /\ pc' = IF return_to_menu(answer) THEN "main_menu" ELSE "exited"
    /\ NoLocals
    /\ UNCHANGED <<exc, favorites, file, warned, fnVars>>

\* show_ocean_data(): fetches the station list and does nothing with it.
OceanResponses ==
    {FetchFails, FetchJson(NotADict), FetchJson([updated |-> 1]),
     FetchJson([updated |-> 1, station |-> <<[key |-> 1, name |-> "Visby"]>>])}

ShowOceanData ==
    /\ pc = "ocean_fetch"
    /\ \E resp \in OceanResponses :
         LET got == ocean_get_stations(resp)
         IN  IF got.kind = "raise"
             THEN Crash(got.value)
             ELSE pc' = "return_prompt" /\ UNCHANGED exc
    /\ UNCHANGED <<inp, favorites, file, stations, station_id, toggled, reqs,
                   weather, geo, loc, lat, retries, shown, forecast_resp,
                   warned, fnVars>>

----------------------------------------------------------------------------
(* show_met_forecasts                                                      *)

ForecastWindow == 24

CoordinateInputs == {"59.3293", "18.0686", "91", "abc"}

\* The loop body of show_met_forecasts on one timestep: the temperature
\* printed, or the exception.  A StopIteration raised by next() inside the
\* coroutine reaches the caller as RuntimeError.
ShowTimestep(time_series) ==
    IF "validTime" \notin DOMAIN time_series THEN Raises("KeyError", <<>>)
    ELSE
      LET n == FirstNamed(time_series.parameters, "t")
      IN  IF n = 0 THEN Raises("RuntimeError", <<>>)
          ELSE IF Len(time_series.parameters[n].values) = 0
               THEN Raises("IndexError", <<>>)
          ELSE Returns(time_series.parameters[n].values[1], <<>>)

\* The loop with a guarded lookup, as format_analysis_data has: a timestep
\* without "t" is passed over.
RECURSIVE ShowLoop_skipping(_, _)
ShowLoop_skipping(timeSeries, n) ==
    IF n = 0 THEN Returns(NoValue, <<>>)
    ELSE
      LET sofar == ShowLoop_skipping(timeSeries, n - 1)
          step == ShowTimestep(timeSeries[n])
      IN  IF sofar.kind = "raise" THEN sofar
          ELSE IF step.kind = "raise" /\ step.value = "RuntimeError" THEN sofar
          ELSE IF step.kind = "raise" THEN Raises(step.value, sofar.console)
          ELSE Returns(NoValue, Append(sofar.console, step.value))

\* The loop over the first n timesteps: console is what has been printed.
RECURSIVE ShowLoop(_, _)
ShowLoop(timeSeries, n) ==
    IF n = 0 THEN Returns(NoValue, <<>>)
    ELSE
      LET sofar == ShowLoop(timeSeries, n - 1)
          step == ShowTimestep(timeSeries[n])
      IN  IF sofar.kind = "raise" THEN sofar
          ELSE IF step.kind = "raise" THEN Raises(step.value, sofar.console)
          ELSE Returns(NoValue, Append(sofar.console, step.value))

Min(a, b) == IF a < b THEN a ELSE b

\* What show_met_forecasts does with the fetched forecast.
ShowForecast(forecast) ==
    IF "timeSeries" \notin DOMAIN forecast THEN Raises("KeyError", <<>>)
    ELSE ShowLoop(forecast.timeSeries,
                  Min(ForecastWindow, Len(forecast.timeSeries)))

ForecastPayloads ==
    {[approvedTime |-> 1],
     [approvedTime |-> 1, timeSeries |-> <<>>],
     [approvedTime |-> 1, timeSeries |->
        [i \in 1..(ForecastWindow + 2) |->
           [validTime |-> "2024-05-01T00:00:00Z",
            parameters |-> <<[name |-> "t", values |-> <<i>>]>>]]]}
    \cup {[approvedTime |-> 1, timeSeries |->
             [i \in 1..(ForecastWindow + 2) |->
                [validTime |-> "2024-05-01T00:00:00Z",
                 parameters |->
                   IF i = gap
                   THEN <<[name |-> "r", values |-> <<80>>]>>
                   ELSE <<[name |-> "r", values |-> <<80>>],
                          [name |-> "t", values |-> <<i, 99>>]>>]]] :
            gap \in {1, 3, ForecastWindow, ForecastWindow + 1}}
    \cup {[approvedTime |-> 1, timeSeries |-> l] : l \in [1..2 -> Timesteps]}

ForecastResponses == {FetchFails} \cup {FetchJson(b) : b \in ForecastPayloads}

\* lat = float(input(...)): no try around it
ForecastLatitude ==
    /\ pc = "fc_latitude"
    /\ \E line \in CoordinateInputs :
         /\ inp' = line
         /\ IF IsFloat(Float(line))
            THEN pc' = "fc_longitude" /\ UNCHANGED exc
            ELSE Crash(Float(line).kind)
    /\ UNCHANGED <<favorites, file, stations, station_id, toggled, reqs,
                   weather, geo, loc, lat, retries, shown, forecast_resp,
                   warned, fnVars>>

ForecastLongitude ==
    /\ pc = "fc_longitude"
    /\ \E line \in CoordinateInputs :
         /\ inp' = line
         /\ IF IsFloat(Float(line))
            THEN pc' = "fc_fetch" /\ UNCHANGED exc
            ELSE Crash(Float(line).kind)
    /\ UNCHANGED <<favorites, file, stations, station_id, toggled, reqs,
                   weather, geo, loc, lat, retries, shown, forecast_resp,
                   warned, fnVars>>

\* get_forecast and the display loop
ForecastFetch ==
    /\ pc = "fc_fetch"
    /\ \E resp \in ForecastResponses :
         /\ forecast_resp' = resp
         /\ LET fetched == fetch_data(resp)
            IN  IF fetched.kind = "raise"
                THEN Crash(fetched.value) /\ shown' = <<>>
                ELSE LET done == ShowForecast(fetched.value)
                     IN  /\ shown' = done.console
                         /\ IF done.kind = "raise"
                            THEN Crash(done.value)
                            ELSE pc' = "return_prompt" /\ UNCHANGED exc
    /\ UNCHANGED <<inp, favorites, file, stations, station_id, toggled, reqs,
                   weather, geo, loc, lat, retries, warned, fnVars>>

----------------------------------------------------------------------------
(* MeteorologicalObservations.run                                          *)

\* self.parameters of MeteorologicalObservations: the menu keys
ObsParameterKeys == {"1", "2", "3", "4", "5"}

ObsParameterInputs == {"1", "2", "9", "q", "Q"}
StationIdInputs == {"1", " 1", "2", "4", "f", "F", "q"}
FavIdInputs == {"1", " 1", "2", "9"}

\* Station catalogs of two parameters; station 1 is listed under another
\* name in the second.
ObsCatalogs ==
    {FetchFails,
     FetchJson([updated |-> 1, station |->
        <<[key |-> 1, name |-> "Lund", active |-> TRUE, height |-> 73],
          [key |-> 2, name |-> "Abisko", active |-> TRUE],
          [key |-> 4, name |-> "Visby", active |-> FALSE]>>]),
     FetchJson([updated |-> 1, station |->
        <<[key |-> 1, name |-> "Visby", active |-> TRUE]>>])}

Observations ==
    <<[date |-> 3600000, value |-> "21.4", quality |-> "G"],
      [date |-> 7200000, value |-> "19.0", quality |-> "G"]>>

ValueResponses ==
    {FetchFails, FetchJson(NotADict), FetchJson([updated |-> 1]),
     FetchJson([updated |-> 1, value |-> <<>>]),
     FetchJson([updated |-> 1, value |-> <<Observations[2]>>]),
     FetchJson([updated |-> 1, value |-> Observations])}

\* the files the program can find at start
InitialFiles ==
    {[state |-> "absent"], [state |-> "corrupt"],
     [state |-> "json", data |-> NoFavorites],
     [state |-> "json", data |-> [id \in {"1"} |-> "Visby"]],
     [state |-> "json", data |-> [id \in {"2"} |-> "Abisko"]]}

\* A lookup that settles for the first station when none has the id.
FindStation_any(list, id) ==
    LET hits == {i \in 1..Len(list) : Str(list[i].key) = id}
    IN  IF Len(list) = 0 THEN 0
        ELSE IF hits = {} THEN 1
        ELSE CHOOSE i \in hits : \A j \in hits : i <= j

\* next((s for s in stations if str(s["key"]) == id), None): the index of
\* the first such station, 0 for None.
FindStation(list, id) ==
    LET hits == {i \in 1..Len(list) : Str(list[i].key) = id}
    IN  IF hits = {} THEN 0
        ELSE CHOOSE i \in hits : \A j \in hits : i <= j

\* A toggle that never removes: the id is (re)entered with the name.
toggle_favorite_add_only(favs, fav_id, name) ==
    [id \in DOMAIN favs \cup {fav_id} |->
       IF id = fav_id THEN name ELSE favs[id]]

\* The 'f' path on a station of the list: delete the id if it is a
\* favorite, else add it with the station's name.
toggle_favorite(favs, fav_id, name) ==
    IF fav_id \in DOMAIN favs
    THEN [id \in DOMAIN favs \ {fav_id} |-> favs[id]]
    ELSE [id \in DOMAIN favs \cup {fav_id} |->
            IF id = fav_id THEN name ELSE favs[id]]

\* latest_value taking the oldest measurement, value[0].
latest_value_first(resp) ==
    IF resp.ok /\ IsDict(resp.body) /\ Len(Get(resp.body, "value", <<>>)) > 0
    THEN resp.body.value[1]
    ELSE NoValue

\* One try of get_latest_weather on a period: the most recent measurement,
\* or None when the request raised or the payload has no values (the bare
\* except swallows whatever is raised).
latest_value(resp) ==
    LET fetched == fetch_data(resp)
    IN  IF fetched.kind = "raise" THEN NoValue
        ELSE IF ~IsDict(fetched.value) THEN NoValue
        ELSE LET value == Get(fetched.value, "value", <<>>)
             IN  IF Len(value) > 0 THEN value[Len(value)] ELSE NoValue

\* display_parameters(): loops until 'q' or a key of self.parameters.
ObsParameters ==
    /\ pc = "obs_parameters"
    /\ \E line \in ObsParameterInputs :
         /\ inp' = line
         /\ pc' = IF Lower(line) = "q" THEN "return_prompt"
                  ELSE IF line \in ObsParameterKeys THEN "obs_get_stations"
                  ELSE "obs_parameters"
    /\ NoLocals
    /\ UNCHANGED <<exc, favorites, file, warned, fnVars>>

\* get_stations(parameter_id), then display_stations up to its prompt; an
\* empty list makes display_stations return None and run() start over.
ObsGetStations ==
    /\ pc = "obs_get_stations"
    /\ \E resp \in ObsCatalogs :
         LET got == get_stations(resp).value
         IN  IF Len(got) = 0
             THEN pc' = "obs_parameters" /\ stations' = <<>>
             ELSE pc' = "obs_station_id" /\ stations' = got
    /\ UNCHANGED <<inp, exc, favorites, file, station_id, toggled, reqs,
                   weather, geo, loc, lat, retries, shown, forecast_resp,
                   warned, fnVars>>

\* The prompt of display_stations.  Every station of the list is active
\* (get_stations keeps no other), so the "may be inactive" question is
\* never asked.
ObsStationId ==
    /\ pc = "obs_station_id"
    /\ \E line \in StationIdInputs :
         /\ inp' = line
         /\ LET id == Strip(line)
            IN  IF Lower(id) = "q"
                THEN /\ pc' = "obs_parameters"
                     /\ stations' = <<>> /\ toggled' = <<>>
                     /\ UNCHANGED station_id
                ELSE IF Lower(id) = "f"
                THEN /\ pc' = "obs_fav_id"
                     /\ UNCHANGED <<stations, toggled, station_id>>
                ELSE IF FindStation(stations, id) = 0
                THEN /\ pc' = "obs_station_id"
                     /\ UNCHANGED <<stations, toggled, station_id>>
                ELSE /\ pc' = "obs_latest_hour"
                     /\ station_id' = id
                     /\ toggled' = <<>>
                     /\ UNCHANGED stations
    /\ UNCHANGED <<exc, favorites, file, reqs, weather, geo, loc, lat,
                   retries, shown, forecast_resp,
                   warned, fnVars>>

\* The last two toggles made at this list, the new one included.
Remember(log, entry) ==
    IF Len(log) = 0 THEN <<entry>> ELSE <<log[Len(log)], entry>>

\* "Enter station ID to toggle favorite status": toggles and saves when
\* the id is in the list, then shows the list again.
ObsFavoriteId ==
    /\ pc = "obs_fav_id"
    /\ \E line \in FavIdInputs, io \in IoOutcomes :
         /\ inp' = line
         /\ LET fav_id == Strip(line)
                n == FindStation(stations, fav_id)
            IN  IF n = 0
                THEN /\ pc' = "obs_station_id"
                     /\ UNCHANGED <<exc, favorites, file, toggled, warned>>
                ELSE
                  LET after == toggle_favorite(favorites, fav_id, stations[n].name)
                      saved == save_favorites(after, file, io)
                  IN  /\ favorites' = after
                      /\ file' = saved.file
                      /\ warned' = saved.console
                      /\ toggled' = Remember(toggled,
                                       [id |-> fav_id, name |-> stations[n].name,
                                        before |-> favorites, after |-> after,
                                        io |-> io, file |-> saved.file])
                      /\ IF saved.kind = "raise"
                         THEN Crash("OSError")
                         ELSE pc' = "obs_station_id" /\ UNCHANGED exc
    /\ UNCHANGED <<stations, station_id, reqs, weather, geo, loc, lat,
                   retries, shown, forecast_resp, fnVars>>

\* The period in hour_url and in day_url.
hour_url == "latest-hour"
\* A second request to the URL of the first.
day_url_again == "latest-hour"
day_url == "latest-day"

\* station_name = next(station["name"] for station in stations
\*                     if str(station["key"]) == station_id):
\* StopIteration when no station of the list has the id.
station_name(list, id) ==
    LET hits == {i \in 1..Len(list) : Str(list[i].key) = id}
    IN  IF hits = {} THEN Raises("StopIteration", <<>>)
        ELSE Returns(list[CHOOSE i \in hits : \A j \in hits : i <= j].name, <<>>)

\* run() with the result of get_latest_weather: "if weather_data:" looks
\* the station's name up and prints the measurement, else "No weather data
\* available"; then the "Check another location?" prompt.
ShowWeather(weather_data) ==
    IF ~IsNone(weather_data) /\ station_name(stations, station_id).kind = "raise"
    THEN Crash("StopIteration")
    ELSE pc' = "obs_again" /\ UNCHANGED exc

\* get_latest_weather: the latest-hour request
ObsLatestHour ==
    /\ pc = "obs_latest_hour"
    /\ \E resp \in ValueResponses :
         /\ reqs' = <<[period |-> hour_url, resp |-> resp]>>
         /\ IF IsNone(latest_value(resp))
            THEN pc' = "obs_latest_day" /\ UNCHANGED <<weather, exc>>
            ELSE weather' = latest_value(resp) /\ ShowWeather(latest_value(resp))
    /\ UNCHANGED <<inp, favorites, file, stations, station_id, toggled,
                   geo, loc, lat, retries, shown, forecast_resp,
                   warned, fnVars>>

\* get_latest_weather: the latest-day request; None when it has no value
\* either.
ObsLatestDay ==
    /\ pc = "obs_latest_day"
    /\ \E resp \in ValueResponses :
         /\ reqs' = Append(reqs, [period |-> day_url, resp |-> resp])
         /\ weather' = latest_value(resp)
         /\ ShowWeather(latest_value(resp))
    /\ UNCHANGED <<inp, favorites, file, stations, station_id, toggled,
                   geo, loc, lat, retries, shown, forecast_resp,
                   warned, fnVars>>

\* "Check another location? (y/n)"
ObsAgain ==
    /\ pc = "obs_again"
    /\ \E answer \in YesNoInputs :
         /\ inp' = answer
         /\ pc' = IF Lower(answer) = "y" THEN "obs_parameters" ELSE "return_prompt"
    /\ NoLocals
    /\ UNCHANGED <<exc, favorites, file, warned, fnVars>>

----------------------------------------------------------------------------
(* LocationUtil                                                            *)

LocationChoiceInputs == {"1", "2", ""}
LatitudeInputs == {"57.69466", "91", "-90", "abc", "nan"}
LongitudeInputs == {"11.97973", "-181", "180", "abc"}

\* Responses of the IP geolocation service; the coordinates are JSON
\* scalars.
GeoResponses ==
    {FetchFails, FetchJson(NotADict), FetchJson([ip |-> 1]),
     FetchJson([ip |-> 1, latitude |-> "59.3293", longitude |-> "18.0686"]),
     FetchJson([ip |-> 1, latitude |-> "0", longitude |-> "0"]),
     FetchJson([ip |-> 1, latitude |-> "0", longitude |-> "18.0686"]),
     FetchJson([ip |-> 1, latitude |-> "null", longitude |-> "null"])}

\* get_automatic_location without the (0, 0) test
get_automatic_location_accepts_zero(resp) ==
    IF /\ resp.ok /\ IsDict(resp.body)
       /\ IsFloat(Float(Get(resp.body, "latitude", "0")))
       /\ IsFloat(Float(Get(resp.body, "longitude", "0")))
    THEN Returns([lat |-> Float(Get(resp.body, "latitude", "0")),
                  lon |-> Float(Get(resp.body, "longitude", "0"))], <<>>)
    ELSE Raises("Exception", <<>>)

\* get_automatic_location(): the pair, or the Exception every failure is
\* wrapped in.
get_automatic_location(resp) ==
    IF ~resp.ok THEN Raises("Exception", <<>>)            \* raise_for_status
    ELSE IF ~IsDict(resp.body) THEN Raises("Exception", <<>>)
    ELSE
      LET latitude == Float(Get(resp.body, "latitude", "0"))
          longitude == Float(Get(resp.body, "longitude", "0"))
      IN  IF ~IsFloat(latitude) \/ ~IsFloat(longitude)
          THEN Raises("Exception", <<>>)
          ELSE IF /\ latitude.kind = "num" /\ latitude.val = 0
                  /\ longitude.kind = "num" /\ longitude.val = 0
          THEN Raises("Exception", <<>>)                  \* Could not determine
          ELSE Returns([lat |-> latitude, lon |-> longitude], <<>>)

\* a latitude check that is off by one degree
valid_latitude_to_91(f) == IsFloat(f) /\ Between(-9100000, f, 9100000)

\* the checks of get_manual_location
valid_latitude(f) == IsFloat(f) /\ Between(-9000000, f, 9000000)
valid_longitude(f) == IsFloat(f) /\ Between(-18000000, f, 18000000)

\* get_location(): "Choice (1/2)"
LocationChoice ==
    /\ pc = "loc_choice"
    /\ \E line \in LocationChoiceInputs :
         /\ inp' = line
         /\ pc' = IF line = "1" THEN "loc_auto" ELSE "loc_manual_lat"
    /\ UNCHANGED <<exc, favorites, file, stations, station_id, toggled, reqs,
                   weather, geo, loc, lat, retries, shown, forecast_resp,
                   warned, fnVars>>

\* get_location(): the automatic lookup; a failure falls back to manual
\* input.
LocationAutomatic ==
    /\ pc = "loc_auto"
    /\ \E resp \in GeoResponses :
         /\ geo' = resp
         /\ pc' = IF get_automatic_location(resp).kind = "return"
                  THEN "loc_confirm" ELSE "loc_manual_lat"
    /\ UNCHANGED <<inp, exc, favorites, file, stations, station_id, toggled,
                   reqs, weather, loc, lat, retries, shown, forecast_resp,
                   warned, fnVars>>

\* get_location(): "Use this location? (y/n)"
LocationConfirm ==
    /\ pc = "loc_confirm"
    /\ \E answer \in YesNoInputs :
         /\ inp' = answer
         /\ IF Lower(answer) = "y"
            THEN /\ loc' = [lat |-> get_automatic_location(geo).value.lat,
                            lon |-> get_automatic_location(geo).value.lon,
                            via |-> "automatic"]
                 /\ pc' = "an_parameter"
            ELSE /\ pc' = "loc_manual_lat"
                 /\ UNCHANGED loc
    /\ UNCHANGED <<exc, favorites, file, stations, station_id, toggled, reqs,
                   weather, geo, lat, retries, shown, forecast_resp,
                   warned, fnVars>>

\* the count of rejected entries, which the code does not keep and does
\* not limit
Rejected(n) == IF n < MaxRetries THEN n + 1 ELSE n

\* get_manual_location(): the latitude prompt
ManualLatitude ==
    /\ pc = "loc_manual_lat"
    /\ \E line \in LatitudeInputs :
         /\ inp' = line
         /\ IF valid_latitude(Float(line))
            THEN /\ lat' = Float(line)
                 /\ pc' = "loc_manual_lon"
                 /\ UNCHANGED retries
            ELSE /\ pc' = "loc_manual_lat"
                 /\ retries' = Rejected(retries)
                 /\ UNCHANGED lat
    /\ UNCHANGED <<exc, favorites, file, stations, station_id, toggled, reqs,
                   weather, geo, loc, shown, forecast_resp,
                   warned, fnVars>>

\* get_manual_location(): the longitude prompt; a rejected longitude
\* starts the loop over at the latitude.
ManualLongitude ==
    /\ pc = "loc_manual_lon"
    /\ \E line \in LongitudeInputs :
         /\ inp' = line
         /\ IF valid_longitude(Float(line))
            THEN /\ loc' = [lat |-> lat, lon |-> Float(line), via |-> "manual"]
                 /\ pc' = "an_parameter"
                 /\ UNCHANGED <<lat, retries>>
            ELSE /\ pc' = "loc_manual_lat"
                 /\ retries' = Rejected(retries)
                 /\ lat' = NoValue
                 /\ UNCHANGED loc
    /\ UNCHANGED <<exc, favorites, file, stations, station_id, toggled, reqs,
                   weather, geo, shown, forecast_resp,
                   warned, fnVars>>

----------------------------------------------------------------------------
(* MeteorologicalAnalysis.run_analysis, after get_location                 *)

AnalysisInputs == {"1", "3", "8", "q"}

AnalysisResponses ==
    {FetchFails,
     FetchJson([approvedTime |-> 1, referenceTime |-> 1, timeSeries |-> <<>>])}
    \cup {FetchJson([approvedTime |-> 1, timeSeries |-> l]) :
            l \in [1..1 -> Timesteps]}
    \cup {FetchJson([approvedTime |-> 1, referenceTime |-> 1, timeSeries |-> l]) :
            l \in [1..2 -> Timesteps]}

\* run_analysis returns: its location is gone with it.
LocationForgotten ==
    /\ geo' = NoValue /\ loc' = NoValue /\ lat' = NoValue
    /\ retries' = 0

\* display_parameters(): one prompt; 'q' and an unknown key both end
\* run_analysis.
AnalysisParameter ==
    /\ pc = "an_parameter"
    /\ \E line \in AnalysisInputs :
         /\ inp' = line
         /\ IF Lower(line) # "q" /\ line \in DOMAIN AnalysisParameters
            THEN pc' = "an_fetch" /\ UNCHANGED <<geo, loc, lat, retries>>
            ELSE pc' = "return_prompt" /\ LocationForgotten
    /\ UNCHANGED <<exc, favorites, file, stations, station_id, toggled, reqs,
                   weather, shown, forecast_resp,
                   warned, fnVars>>

\* The try block of run_analysis: what it printed as results.  Whatever is
\* raised in it is caught and reported.
AnalysisResults(resp, choice) ==
    LET fetched == fetch_data(resp)
    IN  IF fetched.kind = "raise" THEN <<>>
        ELSE LET formatted == format_analysis_data(fetched.value, choice)
             IN  IF formatted.kind = "raise" THEN <<>>
                 ELSE IF Len(formatted.value) = 0 THEN <<>>
                 ELSE IF "referenceTime" \notin DOMAIN fetched.value THEN <<>>
                 ELSE [i \in 1..Len(formatted.value) |-> formatted.value[i].value]

AnalysisFetch ==
    /\ pc = "an_fetch"
    /\ \E resp \in AnalysisResponses :
         shown' = AnalysisResults(resp, inp)
    /\ pc' = "return_prompt"
    /\ LocationForgotten
    /\ UNCHANGED <<inp, exc, favorites, file, stations, station_id, toggled,
                   reqs, weather, forecast_resp, warned, fnVars>>

----------------------------------------------------------------------------
(* Spec: the program from construction to its end                          *)

\* SMHIMultiService(): the observation service loads the favorites file.
Init ==
    /\ pc = "main_menu"
    /\ inp = "" /\ exc = ""
    /\ file \in InitialFiles
    /\ favorites = load_favorites(file).value
    /\ stations = <<>> /\ station_id = "" /\ toggled = <<>>
    /\ reqs = <<>> /\ weather = NoValue
    /\ geo = NoValue /\ loc = NoValue /\ lat = NoValue
    /\ retries = 0 /\ shown = <<>> /\ forecast_resp = NoValue
    /\ warned = load_favorites(file).console
    /\ fin = NoValue /\ fout = NoValue

Next ==
    \/ MainMenu
    \/ ReturnPrompt
    \/ ShowOceanData
    \/ ForecastLatitude
    \/ ForecastLongitude
    \/ ForecastFetch
    \/ ObsParameters
    \/ ObsGetStations
    \/ ObsStationId
    \/ ObsFavoriteId
    \/ ObsLatestHour
    \/ ObsLatestDay
    \/ ObsAgain
    \/ LocationChoice
    \/ LocationAutomatic
    \/ LocationConfirm
    \/ ManualLatitude
    \/ ManualLongitude
    \/ AnalysisParameter
    \/ AnalysisFetch

Spec == Init /\ [][Next]_vars

----------------------------------------------------------------------------
(* Properties of the program (Spec)                                        *)

\* Two toggles in a row of the same id at one station list.
TogglePair ==
    /\ Len(toggled) = 2
    /\ toggled[1].id = toggled[2].id

AsSaved(favs) == [state |-> "json", data |-> favs]

\* C1, as claimed: two toggles of an id in a row leave the favorites as
\* they were before the first, and each of them writes the whole mapping
\* to the file.  It is stated here for the runs in which the file system
\* lets both saves through, where it fails all the same.
C1_TogglePairRestoresAndPersists ==
    (TogglePair /\ toggled[1].io = "ok" /\ toggled[2].io = "ok") =>
      /\ toggled[2].after = toggled[1].before
      /\ \A k \in 1..2 : toggled[k].file = AsSaved(toggled[k].after)

\* C1, amended: two toggles of an id in a row restore the ids of the
\* favorites and the names of all other ids; the mapping is as before when
\* the id was not a favorite or was one under the name the list gives it,
\* and else the id now carries the list's name.  Each toggle saves: the
\* file holds the whole mapping after it unless the write failed.
C1_TogglePairRestoresIds ==
    TogglePair =>
      LET id == toggled[1].id
          name == toggled[2].name
          before == toggled[1].before
          after == toggled[2].after
      IN  /\ DOMAIN after = DOMAIN before
          /\ \A other \in DOMAIN before \ {id} : after[other] = before[other]
          /\ (id \notin DOMAIN before \/ before[id] = name) => after = before
          /\ id \in DOMAIN before => after[id] = name
          /\ toggled[2].before = toggled[1].after
          /\ \A k \in 1..2 :
               toggled[k].io = "ok" => toggled[k].file = AsSaved(toggled[k].after)

\* An id was toggled twice in a row, both saves succeeded, and the
\* favorites, which were not empty, are as before.
C1_Witness ==
    /\ TogglePair
    /\ toggled[1].before # NoFavorites
    /\ toggled[2].after = toggled[1].before
    /\ toggled[1].io = "ok" /\ toggled[2].io = "ok"
    /\ file = AsSaved(favorites)

\* A response that carries at least one value.
HasValues(resp) ==
    /\ resp.ok /\ IsDict(resp.body)
    /\ "value" \in DOMAIN resp.body
    /\ Len(resp.body.value) > 0
LastValue(resp) == resp.body.value[Len(resp.body.value)]

\* get_latest_weather has returned (and run() is at its next prompt).
LatestWeatherReturned == pc = "obs_again"

\* C2: get_latest_weather returns the last value of latest-hour when that
\* request succeeds with values; else the last value of latest-day when
\* that one does; else None; it raises in no case.
C2_LatestHourThenDayThenNone ==
    LatestWeatherReturned =>
      /\ exc = ""
      /\ Len(reqs) >= 1 /\ reqs[1].period = "latest-hour"
      /\ HasValues(reqs[1].resp) =>
           /\ weather = LastValue(reqs[1].resp)
           /\ Len(reqs) = 1
      /\ ~HasValues(reqs[1].resp) =>
           /\ Len(reqs) = 2 /\ reqs[2].period = "latest-day"
           /\ HasValues(reqs[2].resp) => weather = LastValue(reqs[2].resp)
           /\ ~HasValues(reqs[2].resp) => IsNone(weather)

\* latest-hour failed and latest-day had two values, of which the last was
\* returned.
C2_Witness ==
    /\ LatestWeatherReturned
    /\ Len(reqs) = 2
    /\ ~reqs[1].resp.ok
    /\ HasValues(reqs[2].resp) /\ Len(reqs[2].resp.body.value) = 2
    /\ weather = Observations[2]

\* C3: no failure ends the process: run() is never left by an exception.
C3_NoFailureIsFatal == pc # "crashed" /\ exc = ""

\* the positions inside the handlers
HandlerPositions ==
    {"obs_parameters", "obs_get_stations", "obs_station_id", "obs_fav_id",
     "obs_latest_hour", "obs_latest_day", "obs_again",
     "fc_latitude", "fc_longitude", "fc_fetch",
     "loc_choice", "loc_auto", "loc_confirm", "loc_manual_lat",
     "loc_manual_lon", "an_parameter", "an_fetch",
     "ocean_fetch"}

\* C4: at the service menu 'q' in any case ends the loop at once and
\* nothing else does; an invalid choice leads to the question "Return to
\* main menu?", and so does every handler that runs to completion; after
\* the question the menu comes again iff the answer is 'y' in any case,
\* and every other answer ends the program.
C4_MenuLoop ==
    [][ /\ pc = "main_menu" =>
             /\ inp' \in {"q", "Q"} <=> pc' = "exited"
             /\ inp' \in Services <=> pc' \in HandlerPositions
             /\ (inp' \notin {"q", "Q"} /\ inp' \notin Services)
                  <=> pc' = "return_prompt"
        /\ (pc \in HandlerPositions /\ pc' \notin HandlerPositions) =>
             pc' \in {"return_prompt", "crashed"}
        /\ pc = "return_prompt" =>
             /\ inp' \in {"y", "Y"} <=> pc' = "main_menu"
             /\ inp' \notin {"y", "Y"} <=> pc' = "exited"
        /\ pc' = "exited" => pc \in {"main_menu", "return_prompt"}
      ]_vars

\* The menu is shown again after a 'Y' to the question.
C4_Witness == pc = "main_menu" /\ inp = "Y"

LocationPositions ==
    {"loc_choice", "loc_auto", "loc_confirm", "loc_manual_lat", "loc_manual_lon"}

\* The lookup gave a pair that is not (0, 0).
Located(resp) ==
    /\ resp.ok /\ IsDict(resp.body)
    /\ LET la == Float(Get(resp.body, "latitude", "0"))
           lo == Float(Get(resp.body, "longitude", "0"))
       IN  /\ la.kind \in {"num", "nan"} /\ lo.kind \in {"num", "nan"}
           /\ ~(la.kind = "num" /\ la.val = 0 /\ lo.kind = "num" /\ lo.val = 0)

\* C8: get_location goes from its choice to the automatic lookup (choice
\* "1") or to manual entry; it returns the looked-up pair only when the
\* lookup succeeded with a pair other than (0, 0) and the user answered
\* 'y'; a failed lookup, a (0, 0) pair and any other answer lead to manual
\* entry, whose pair is returned; it is left only by returning a pair.
C8_LocationResolution ==
    [][ /\ pc = "loc_choice" =>
             pc' = IF inp' = "1" THEN "loc_auto" ELSE "loc_manual_lat"
        /\ pc = "loc_auto" =>
             pc' = IF Located(geo') THEN "loc_confirm" ELSE "loc_manual_lat"
        /\ pc = "loc_confirm" =>
             /\ Located(geo)
             /\ IF inp' \in {"y", "Y"}
                THEN /\ pc' = "an_parameter"
                     /\ loc' = [lat |-> Float(Get(geo.body, "latitude", "0")),
                                lon |-> Float(Get(geo.body, "longitude", "0")),
                                via |-> "automatic"]
                ELSE pc' = "loc_manual_lat"
        /\ (pc \in {"loc_manual_lat", "loc_manual_lon"} /\ pc' = "an_parameter") =>
             loc' = [lat |-> lat, lon |-> Float(inp'), via |-> "manual"]
        /\ pc \in LocationPositions =>
             pc' \in LocationPositions \cup {"an_parameter"}
        /\ (pc' = "an_parameter" /\ pc # "an_parameter") =>
             pc \in {"loc_confirm", "loc_manual_lon"}
      ]_vars

\* get_location has returned a manually entered pair after the lookup
\* gave (0, 0).
C8_Witness ==
    /\ pc = "an_parameter"
    /\ loc.via = "manual"
    /\ ~IsNone(geo) /\ geo.ok /\ IsDict(geo.body)
    /\ Get(geo.body, "latitude", "none") = "0"

InLatitudeRange(f) == f.kind = "num" /\ -9000000 <= f.val /\ f.val <= 9000000
InLongitudeRange(f) == f.kind = "num" /\ -18000000 <= f.val /\ f.val <= 18000000

\* C9: get_manual_location returns only pairs with -90 <= lat <= 90 and
\* -180 <= lon <= 180; an entry that is not a number or is out of range is
\* rejected and the prompting starts again, however many entries have been
\* rejected, and nothing but a valid pair ends it.
C9_ManualLocationValidated ==
    [][ /\ pc = "loc_manual_lat" =>
             IF InLatitudeRange(Float(inp'))
             THEN pc' = "loc_manual_lon" /\ lat' = Float(inp')
             ELSE pc' = "loc_manual_lat" /\ loc' = loc
        /\ pc = "loc_manual_lon" =>
             IF InLongitudeRange(Float(inp'))
             THEN pc' = "an_parameter"
             ELSE pc' = "loc_manual_lat" /\ loc' = loc
        /\ (pc' = "an_parameter" /\ loc'.via = "manual") =>
             InLatitudeRange(loc'.lat) /\ InLongitudeRange(loc'.lon)
      ]_vars

\* (57.69466, 11.97973) was returned after two or more rejected
\* entries.
C9_Witness ==
    /\ pc = "an_parameter"
    /\ loc = [lat |-> Float("57.69466"), lon |-> Float("11.97973"), via |-> "manual"]
    /\ retries >= 2

\* show_met_forecasts has fetched a forecast with a time series and has
\* gone through its display loop.
ForecastDisplayed ==
    /\ ~IsNone(forecast_resp)
    /\ forecast_resp.ok
    /\ "timeSeries" \in DOMAIN forecast_resp.body
ForecastSeries == forecast_resp.body.timeSeries
\* the timesteps the loop may visit
DisplayWindow ==
    {i \in 1..Len(ForecastSeries) : i <= 24}
\* v is the first value of the first parameter named "t" of the timestep
IsTemperatureOf(v, time_series) ==
    \E k \in 1..Len(time_series.parameters) :
      /\ time_series.parameters[k].name = "t"
      /\ \A j \in 1..(k - 1) : time_series.parameters[j].name # "t"
      /\ v = time_series.parameters[k].values[1]

\* C11: the forecast display prints, in order, the first value of the
\* parameter "t" of the first 24 timesteps at most; when one of these
\* lacks "t" the handler ends there with an exception that nothing
\* catches, having printed the timesteps before it, and skips nothing.
C11_ForecastWalksWindowOrFails ==
    (/\ ForecastDisplayed
     /\ \A i \in DisplayWindow : Complete(ForecastSeries[i], "t")) =>
      LET lacking == {i \in DisplayWindow : ~HasParameter(ForecastSeries[i], "t")}
          printed == IF lacking = {} THEN DisplayWindow
                     ELSE {i \in DisplayWindow : \A k \in lacking : i < k}
      IN  /\ Len(shown) = Cardinality(printed)
          /\ \A i \in printed : IsTemperatureOf(shown[i], ForecastSeries[i])
          /\ lacking = {} => (pc = "return_prompt" /\ exc = "")
          /\ lacking # {} => (pc = "crashed" /\ exc = "RuntimeError")

\* A forecast of more than 24 timesteps whose third lacks "t" ended the
\* handler after two printed temperatures.
C11_Witness ==
    /\ ForecastDisplayed
    /\ Len(ForecastSeries) > 24
    /\ ~HasParameter(ForecastSeries[3], "t")
    /\ pc = "crashed"
    /\ Len(shown) = 2

\* What load_favorites left behind at construction: nothing from an absent
\* file; nothing and a warning from one that cannot be read or parsed.
LoadTolerant ==
    /\ file.state = "absent" => favorites = NoFavorites
    /\ file.state = "corrupt" => (favorites = NoFavorites /\ warned # <<>>)

\* id is in exactly one of the two mappings, which agree on all other ids.
ToggledAt(before, after, id) ==
    /\ (id \in DOMAIN after) <=> (id \notin DOMAIN before)
    /\ DOMAIN after \ {id} = DOMAIN before \ {id}
    /\ \A other \in DOMAIN before \ {id} : after[other] = before[other]

\* A step of the favorite prompt that toggles a station of the list.
ToggleStep ==
    /\ pc = "obs_fav_id"
    /\ FindStation(stations, Strip(inp')) # 0
    /\ Len(toggled') > 0

\* When the save of a toggle fails, a warning is printed, the favorites in
\* memory are the toggled ones, and the station prompt comes next.
SaveTolerant ==
    ToggleStep =>
      LET last == toggled'[Len(toggled')]
      IN  last.io # "ok" =>
            /\ warned' # <<>>
            /\ ToggledAt(favorites, favorites', Strip(inp'))
            /\ pc' = "obs_station_id"
            /\ exc' = ""

\* C13: favorites I/O is tolerant.  load_favorites yields an empty mapping
\* when the file is absent, and an empty mapping and a warning when the
\* file is there but cannot be read or parsed; save_favorites on an I/O
\* failure prints a warning and returns normally, so that the mapping in
\* memory stays as toggled and the station selection goes on.
C13_FavoritesIoTolerant == LoadTolerant /\ [][SaveTolerant]_vars

\* A station was made a favorite while the write of the file failed: the
\* warning was printed, the favorites hold the station, the file does not,
\* and the station prompt is open.
C13_Witness ==
    /\ pc = "obs_station_id"
    /\ exc = ""
    /\ Len(toggled) > 0
    /\ toggled[Len(toggled)].io = "write_fails"
    /\ toggled[Len(toggled)].id \in DOMAIN favorites
    /\ favorites = toggled[Len(toggled)].after
    /\ file.state = "corrupt"
    /\ warned # <<>>

\* display_stations has returned an id and run() is at or past the call
\* of get_latest_weather.
StationChosen == pc \in {"obs_latest_hour", "obs_latest_day", "obs_again"}

\* Some station of the list has id as the string of its key.
InList(list, id) == \E n \in 1..Len(list) : Str(list[n].key) = id

\* The id display_stations returned is one of the list, and the name
\* lookup of run() has never come up empty.
ChosenIsListed ==
    /\ StationChosen =>
         /\ InList(stations, station_id)
         /\ station_name(stations, station_id).kind = "return"
    /\ exc # "StopIteration"

\* How display_stations ends: with None at once when the list is empty;
\* else from its prompt, with None on 'q' (any case, blanks stripped) or
\* with the stripped input when that is the key of a listed station.  The
\* favorite prompt only ever leads back to the station prompt.
DisplayStationsEnds ==
    /\ (pc = "obs_get_stations" /\ Len(stations') = 0) => pc' = "obs_parameters"
    /\ (pc = "obs_station_id" /\ pc' \notin {"obs_station_id", "obs_fav_id"}) =>
         \/ pc' = "obs_parameters" /\ Lower(Strip(inp')) = "q"
         \/ /\ pc' = "obs_latest_hour"
            /\ station_id' = Strip(inp')
            /\ InList(stations, station_id')
            /\ stations' = stations
    /\ pc = "obs_fav_id" => pc' = "obs_station_id"

\* C14: display_stations returns None (on 'q', or for an empty list) or
\* the string key of a station of the list it was given, whatever invalid
\* ids and favorite toggles came before; so the lookup of the station's
\* name in MeteorologicalObservations.run finds a match for every
\* returned id.
C14_ReturnedIdIsListed == []ChosenIsListed /\ [][DisplayStationsEnds]_vars

\* After a toggle of station 2 whose save was refused, " 1" was entered
\* at a list of two stations: "1" was returned, weather data came, and the
\* name lookup found the station.
C14_Witness ==
    /\ pc = "obs_again"
    /\ exc = ""
    /\ inp = " 1" /\ station_id = "1"
    /\ Len(stations) = 2
    /\ ~IsNone(weather)
    /\ station_name(stations, station_id) = Returns("Lund", <<>>)
    /\ "2" \in DOMAIN favorites
    /\ warned # <<>>

\* C15: one call of get_latest_weather makes at most two requests, the
\* first for latest-hour and the second for latest-day; latest-day is
\* asked for only when the latest-hour request failed or came without
\* values, never after it brought a value; and no URL is asked for twice.
C15_RequestOrdering ==
    /\ Len(reqs) <= 2
    /\ Len(reqs) >= 1 => reqs[1].period = "latest-hour"
    /\ Len(reqs) = 2 =>
         /\ reqs[2].period = "latest-day"
         /\ ~HasValues(reqs[1].resp)
    /\ \A i, j \in 1..Len(reqs) : reqs[i].period = reqs[j].period => i = j
    /\ pc = "obs_latest_day" => (Len(reqs) = 1 /\ ~HasValues(reqs[1].resp))
    /\ (pc = "obs_again" /\ HasValues(reqs[1].resp)) => Len(reqs) = 1

\* The latest-hour request came back with an empty list of values, the
\* latest-day request was made after it and failed, and the call is over.
C15_Witness ==
    /\ pc = "obs_again"
    /\ Len(reqs) = 2
    /\ reqs[1].period = "latest-hour" /\ reqs[2].period = "latest-day"
    /\ reqs[1].resp.ok /\ IsDict(reqs[1].resp.body)
    /\ "value" \in DOMAIN reqs[1].resp.body
    /\ Len(reqs[1].resp.body.value) = 0
    /\ ~reqs[2].resp.ok
    /\ IsNone(weather)

----------------------------------------------------------------------------
(* MeteorologicalObservations.format_weather_data                          *)

\* The unit of each key of self.parameters.
ObsUnits ==
    [c \in ObsParameterKeys |->
       CASE c = "1" -> "degC"
         [] c = "2" -> "hPa"
         [] c = "3" -> "%"
         [] c = "4" -> "mm"
         [] c = "5" -> "m/s"]

\* data["date"] / 1000 and datetime.fromtimestamp on the dates of the
\* model: the epoch milliseconds, or the exception.  "abc" is a JSON
\* string, "null" is None, "1e20" is a number no datetime can hold.
EpochMs(date) ==
    CASE date = "3600000" -> [kind |-> "num", val |-> 3600000]
      [] date = "3659999" -> [kind |-> "num", val |-> 3659999]
      [] date = "7200000" -> [kind |-> "num", val |-> 7200000]
      [] date = "1e20"    -> [kind |-> "OverflowError", val |-> 0]
      [] OTHER            -> [kind |-> "TypeError", val |-> 0]

\* strftime('%Y-%m-%d %H:%M'): the local time down to the minute
Strftime(ms) == [minute |-> ms \div 60000]

\* round half away from zero of v / d, for d > 0
RoundDiv(v, d) ==
    IF v >= 0 THEN (v + d \div 2) \div d ELSE -((d \div 2 - v) \div d)

\* f"{value:.1f}", f"{value:.0f}" and str(value) of a float held in units
\* of 10^-5.
FormatValue(f, unit) ==
    IF unit \in {"degC", "m/s", "mm"} THEN [tenths |-> RoundDiv(f.val, 10000)]
    ELSE IF unit = "hPa" THEN [units |-> RoundDiv(f.val, 100000)]
    ELSE [repr |-> f.val]

\* f"{a}: {b} {unit}"
Line(a, b, unit) == [head |-> a, text |-> b, unit |-> unit]

\* The except branch of format_weather_data: the line of the raw fields.
\* It looks the unit up again and calls data.get, outside any try.
FormatFallback(data, parameter_choice) ==
    IF parameter_choice \notin DOMAIN ObsUnits
    THEN Raises("KeyError", <<"Error formatting data">>)
    ELSE Returns(Line([raw |-> Get(data, "date", "Unknown time")],
                      [raw |-> Get(data, "value", "No value")],
                      ObsUnits[parameter_choice]),
                 <<"Error formatting data">>)

\* format_weather_data without the outer try: whatever a step raises
\* reaches the caller.
format_weather_data_unguarded(data, parameter_choice) ==
    IF ~IsDict(data) THEN Raises("TypeError", <<>>)
    ELSE IF "date" \notin DOMAIN data THEN Raises("KeyError", <<>>)
    ELSE IF EpochMs(data.date).kind # "num"
         THEN Raises(EpochMs(data.date).kind, <<>>)
    ELSE IF "value" \notin DOMAIN data THEN Raises("KeyError", <<>>)
    ELSE IF parameter_choice \notin DOMAIN ObsUnits THEN Raises("KeyError", <<>>)
    ELSE
      LET unit == ObsUnits[parameter_choice]
          timestamp == Strftime(EpochMs(data.date).val)
          value == Float(data.value)
      IN  IF value.kind # "num"
          THEN Returns(Line(timestamp, [raw |-> data.value], unit), <<>>)
          ELSE Returns(Line(timestamp, FormatValue(value, unit), unit), <<>>)

\* format_weather_data(data, parameter_choice)
format_weather_data(data, parameter_choice) ==
    IF ~IsDict(data)
    THEN Raises("AttributeError", <<"Error formatting data">>)  \* data.get
    ELSE IF "date" \notin DOMAIN data                           \* KeyError
         THEN FormatFallback(data, parameter_choice)
    ELSE IF EpochMs(data.date).kind # "num"
         THEN FormatFallback(data, parameter_choice)
    ELSE IF "value" \notin DOMAIN data                          \* KeyError
         THEN FormatFallback(data, parameter_choice)
    ELSE IF parameter_choice \notin DOMAIN ObsUnits             \* KeyError
         THEN FormatFallback(data, parameter_choice)
    ELSE
      LET unit == ObsUnits[parameter_choice]
          timestamp == Strftime(EpochMs(data.date).val)
          value == Float(data.value)
      IN  IF value.kind # "num"                     \* ValueError, TypeError
          THEN Returns(Line(timestamp, [raw |-> data.value], unit), <<>>)
          ELSE Returns(Line(timestamp, FormatValue(value, unit), unit), <<>>)

WeatherDates == {"3600000", "3659999", "abc", "null", "1e20"}
WeatherValues == {"21.456", "1013.7", "-3.26", "80", "abc", "null", ""}

\* Observation records: with and without a date, with and without a value.
WeatherRecords ==
    {NotADict, [quality |-> "G"]}
    \cup {[quality |-> "G", date |-> d] : d \in WeatherDates}
    \cup {[quality |-> "G", value |-> v] : v \in WeatherValues}
    \cup {[quality |-> "G", date |-> d, value |-> v] :
            d \in WeatherDates, v \in WeatherValues}

FormatChoices == ObsParameterKeys \cup {"9"}

----------------------------------------------------------------------------
(* SpecFormat: one call of format_weather_data                             *)

InitFormat ==
    /\ AppIdle
    /\ pc = "formatting_weather"
    /\ fin \in [data : WeatherRecords, choice : FormatChoices]
    /\ fout = Returns(<<>>, <<>>)

CallFormatWeatherData ==
    /\ pc = "formatting_weather"
    /\ fout' = format_weather_data(fin.data, fin.choice)
    /\ pc' = "formatted_weather"
    /\ UNCHANGED <<fin, appVars>>

NextFormat == CallFormatWeatherData

SpecFormat == InitFormat /\ [][NextFormat]_vars

\* format_weather_data was called on an observation record with a key of
\* self.parameters.
FormatWeatherCalled ==
    /\ pc = "formatted_weather"
    /\ IsDict(fin.data)
    /\ fin.choice \in {"1", "2", "3", "4", "5"}

\* the date of the record is a number datetime.fromtimestamp takes
DateConverts(data) ==
    "date" \in DOMAIN data /\ data.date \in {"3600000", "3659999"}
\* the value of the record is one float() takes
ValueCoerces(data) ==
    "value" \in DOMAIN data /\ data.value \in {"21.456", "1013.7", "-3.26", "80"}

\* C12: format_weather_data returns a line for every observation record
\* and every parameter: with the timestamp, the raw value and the unit when
\* the value is not a number, and built from the raw date and value fields
\* when the date or the value is missing or the date does not convert.
C12_FormatNeverFails ==
    FormatWeatherCalled =>
      LET data == fin.data
          line == fout.value
      IN  /\ fout.kind = "return"
          /\ line.unit = ObsUnits[fin.choice]
          /\ (DateConverts(data) /\ "value" \in DOMAIN data /\ ~ValueCoerces(data)) =>
               /\ "minute" \in DOMAIN line.head
               /\ line.text = [raw |-> data.value]
          /\ (DateConverts(data) /\ ValueCoerces(data)) =>
               /\ "minute" \in DOMAIN line.head
               /\ "raw" \notin DOMAIN line.text
          /\ (~DateConverts(data) \/ "value" \notin DOMAIN data) =>
               /\ line.head = [raw |-> IF "date" \in DOMAIN data
                                       THEN data.date ELSE "Unknown time"]
               /\ line.text = [raw |-> IF "value" \in DOMAIN data
                                       THEN data.value ELSE "No value"]

\* A record whose date is not a number was formatted from its raw fields.
C12_Witness ==
    /\ FormatWeatherCalled
    /\ "date" \in DOMAIN fin.data /\ fin.data.date = "abc"
    /\ "value" \in DOMAIN fin.data
    /\ fout.kind = "return"
    /\ fout.value.head = [raw |-> "abc"]

====
